---- MODULE Spec2Model ----
(***************************************************************************)
(* A model of the documentation servers of docs/tools:                     *)
(*   docs_server.py  DocsHandler     (list and read endpoints)             *)
(*   server.py       DiagramHandler  (the earlier diagram-only server)     *)
(*                                                                         *)
(* Strings are sequences of one-character strings, so that the substring   *)
(* test '..' in file_path, str.replace('%2F', '/'), str.startswith and the *)
(* slices self.path[10:] are computed as Python computes them.  The        *)
(* filesystem is a tree of files keyed by absolute path; a path string is  *)
(* resolved against it component by component, '..' included, the way the  *)
(* operating system resolves the argument of open().                       *)
(***************************************************************************)
EXTENDS Integers, Sequences, FiniteSets, TLC

VARIABLES fs, pc, request, resp

vars == <<fs, pc, request, resp>>

----------------------------------------------------------------------------
(* Bounds of the model *)

\* the number of path segments a request appends to a prefix
MaxSegs == 2

\* the number of files in the tree
MaxFiles == 3

----------------------------------------------------------------------------
(* String literals of the source *)

SLASH == <<"/">>
DOTDOT == <<".", ".">>
PCT2F == <<"%", "2", "F">>
DOCS == <<"d", "o", "c", "s">>
DOCS_SLASH == <<"d", "o", "c", "s", "/">>
CURRENT_PROJECT == <<"c", "u", "r", "r", "e", "n", "t", "-", "p", "r", "o", "j", "e", "c", "t">>
ARCHITECTURE == <<"a", "r", "c", "h", "i", "t", "e", "c", "t", "u", "r", "e">>
MOCKUP_ROOT == DOCS_SLASH \o CURRENT_PROJECT \o SLASH
DIAGRAM_ROOT == DOCS_SLASH \o ARCHITECTURE \o SLASH

READ_MMD == <<"/", "r", "e", "a", "d", "-", "m", "m", "d", "/">>
READ_DOC == <<"/", "r", "e", "a", "d", "-", "d", "o", "c", "/">>
READ_FILE == <<"/", "r", "e", "a", "d", "-", "f", "i", "l", "e", "/">>
MOCKUP == <<"/", "m", "o", "c", "k", "u", "p", "/">>
LIST_DOCS == <<"/", "l", "i", "s", "t", "-", "d", "o", "c", "s">>
LIST_MMD == <<"/", "l", "i", "s", "t", "-", "m", "m", "d">>
LIST_MOCKUPS == <<"/", "l", "i", "s", "t", "-", "m", "o", "c", "k", "u", "p", "s">>
DOCS_STRUCTURE == <<"/", "d", "o", "c", "s", "-", "s", "t", "r", "u", "c", "t", "u", "r", "e">>

----------------------------------------------------------------------------
(* Python's str operations *)

\* s[n:]
Slice(s, n) == SubSeq(s, n + 1, Len(s))

\* s.startswith(p)
StartsWith(s, p) == Len(s) >= Len(p) /\ SubSeq(s, 1, Len(p)) = p

\* s.endswith(p)
EndsWith(s, p) == Len(s) >= Len(p) /\ SubSeq(s, Len(s) - Len(p) + 1, Len(s)) = p

\* sub in s
Contains(s, sub) ==
    \E i \in 1..(Len(s) - Len(sub) + 1) : SubSeq(s, i, i + Len(sub) - 1) = sub

\* s.replace(old, new): leftmost non-overlapping occurrences
RECURSIVE Replace(_, _, _)
Replace(s, old, new) ==
    IF s = <<>> THEN <<>>
    ELSE IF StartsWith(s, old) THEN new \o Replace(Slice(s, Len(old)), old, new)
    ELSE <<Head(s)>> \o Replace(Tail(s), old, new)

\* s.split(c) for a one-character separator c
RECURSIVE Split(_, _)
Split(s, c) ==
    IF \A i \in 1..Len(s) : s[i] # c THEN <<s>>
    ELSE LET k == CHOOSE i \in 1..Len(s) : s[i] = c /\ \A j \in 1..(i - 1) : s[j] # c
         IN <<SubSeq(s, 1, k - 1)>> \o Split(Slice(s, k), c)

\* sep.join(parts)
RECURSIVE Join(_, _)
Join(parts, sep) ==
    IF parts = <<>> THEN <<>>
    ELSE IF Len(parts) = 1 THEN parts[1]
    ELSE parts[1] \o sep \o Join(Tail(parts), sep)

\* os.path.join(a, b) of posixpath: an absolute b discards a
PathJoin(a, b) ==
    IF StartsWith(b, SLASH) THEN b
    ELSE IF a = <<>> \/ EndsWith(a, SLASH) THEN a \o b
    ELSE a \o SLASH \o b

\* os.path.basename(p)
Basename(p) == LET parts == Split(p, "/") IN parts[Len(parts)]

----------------------------------------------------------------------------
(* The filesystem *)

\* the project root the server changes into before serving
Cwd == << <<"p">> >>

\* bytes no UTF-8 text contains (the first byte of a PNG, of a JPEG)
InvalidBytes == {"x89", "xFF"}

Utf8Valid(bytes) == \A i \in 1..Len(bytes) : bytes[i] \notin InvalidBytes

\* text mode reads with universal newlines: \r\n and \r become \n
Newlines(text) == Replace(Replace(text, <<"\r", "\n">>, <<"\n">>), <<"\r">>, <<"\n">>)

\* the directories of a tree: the ancestors of its files, and the document root
Dirs(tree) ==
    UNION {{SubSeq(p, 1, k) : k \in 0..(Len(p) - 1)} : p \in DOMAIN tree}
        \cup {SubSeq(Cwd \o <<DOCS>>, 1, k) : k \in 0..(Len(Cwd) + 1)}

NoNode == [ok |-> FALSE, at |-> <<>>]

\* path resolution from directory cur through the components comps
RECURSIVE Walk(_, _, _)
Walk(tree, cur, comps) ==
    IF comps = <<>> THEN [ok |-> TRUE, at |-> cur]
    ELSE IF cur \notin Dirs(tree) THEN NoNode
    ELSE LET c == Head(comps)
         IN IF c = <<>> \/ c = <<".">> THEN Walk(tree, cur, Tail(comps))
            ELSE IF c = DOTDOT
                 THEN Walk(tree, IF cur = <<>> THEN cur ELSE SubSeq(cur, 1, Len(cur) - 1),
                           Tail(comps))
            ELSE LET nxt == Append(cur, c)
                 IN IF nxt \in Dirs(tree) \/ nxt \in DOMAIN tree
                    THEN Walk(tree, nxt, Tail(comps))
                    ELSE NoNode

\* the node a path string names, relative paths starting at the working directory
Resolve(tree, path) ==
    IF path = <<>> THEN NoNode
    ELSE Walk(tree, IF StartsWith(path, SLASH) THEN <<>> ELSE Cwd, Split(path, "/"))

\* os.path.isfile(path)
IsFile(tree, path) ==
    LET r == Resolve(tree, path) IN r.ok /\ r.at \in DOMAIN tree

\* open(path) succeeds: a regular file the process may read
CanOpen(tree, path) ==
    IsFile(tree, path) /\ tree[Resolve(tree, path).at].readable

\* the bytes of the file open(path) reads
FileBytes(tree, path) == tree[Resolve(tree, path).at].bytes

----------------------------------------------------------------------------
(* Responses *)

\* the except clause of a handler: send_response(500) and the JSON error body,
\* after the statuses the try block had already sent
Failure(h, emitted, msg, ops) ==
    [handler |-> h, statuses |-> emitted \o <<500>>, ctype |-> "application/json",
     body |-> [error |-> msg], opened |-> {}, fsops |-> ops, raised |-> FALSE]

\* send_response(200), the headers and the body written by the try block
Success(h, ct, b, files, ops) ==
    [handler |-> h, statuses |-> <<200>>, ctype |-> ct,
     body |-> b, opened |-> files, fsops |-> ops, raised |-> FALSE]

OpIsFile(path) == [op |-> "isfile", path |-> path]
OpOpen(path) == [op |-> "open", path |-> path]

\* the exception open(path).read() raises, "" when it raises none;
\* text mode decodes the bytes as UTF-8, binary mode does not
ReadError(tree, path, textMode) ==
    IF ~IsFile(tree, path) THEN "No such file or directory"
    ELSE IF ~CanOpen(tree, path) THEN "Permission denied"
    ELSE IF textMode /\ ~Utf8Valid(FileBytes(tree, path)) THEN "codec can't decode"
    ELSE ""

\* what f.read() returns in text mode
ReadText(tree, path) == Newlines(FileBytes(tree, path))

----------------------------------------------------------------------------
(* Title extraction by regular expression *)

Whitespace == {" ", "\t", "\n", "\r"}

\* the positions where ^ matches under re.MULTILINE
LineStarts(text) == {i \in 1..Len(text) : i = 1 \/ text[i - 1] = "\n"}

\* the end of the line that holds position i: where $ matches after a greedy .+
LineEnd(text, i) ==
    IF \A j \in i..Len(text) : text[j] # "\n" THEN Len(text)
    ELSE (CHOOSE j \in i..Len(text) : text[j] = "\n" /\ \A k \in i..(j - 1) : text[k] # "\n") - 1

\* the ends m of \s+ started at j for which (.+)$ matches from m + 1
SpaceEnds(text, j) ==
    {m \in j..(Len(text) - 1) :
        /\ \A k \in j..m : text[k] \in Whitespace
        /\ text[m + 1] # "\n"}

\* whether  ^ hashes \s+ (.+) $  matches at position i
HeadingAt(text, hashes, i) ==
    /\ StartsWith(Slice(text, i - 1), hashes)
    /\ SpaceEnds(text, i + Len(hashes)) # {}

\* group(1) of the match at i: \s+ is greedy, so it ends as late as it can
HeadingGroup(text, hashes, i) ==
    LET ends == SpaceEnds(text, i + Len(hashes))
        m == CHOOSE e \in ends : \A o \in ends : o <= e
    IN SubSeq(text, m + 1, LineEnd(text, m + 1))

\* re.search(r'^#\s+(.+)$', text, re.MULTILINE) with the given run of '#':
\* the leftmost match
HeadingSearch(text, hashes) ==
    LET at == {i \in LineStarts(text) : HeadingAt(text, hashes, i)}
    IN IF at = {} THEN [found |-> FALSE, group |-> <<>>]
       ELSE [found |-> TRUE,
             group |-> HeadingGroup(text, hashes, CHOOSE i \in at : \A o \in at : i <= o)]

H1 == <<"#">>
H2 == <<"#", "#">>

\* s.strip()
RECURSIVE LStrip(_)
LStrip(s) == IF s # <<>> /\ Head(s) \in Whitespace THEN LStrip(Tail(s)) ELSE s

RECURSIVE RStrip(_)
RStrip(s) ==
    IF s # <<>> /\ s[Len(s)] \in Whitespace THEN RStrip(SubSeq(s, 1, Len(s) - 1)) ELSE s

Strip(s) == RStrip(LStrip(s))

----------------------------------------------------------------------------
(* Character order and case, as Python's str compares and converts *)

\* the characters of the model in code point order
CodePoints ==
    <<"\t", "\n", "\r", " ", "#", "-", ".", "/",
      "0", "1", "2", "3", "4", "5", "6", "7", "8", "9", ":", "<", ">",
      "A", "B", "C", "D", "E", "F", "G", "H", "I", "J", "K", "L", "M",
      "N", "O", "P", "Q", "R", "S", "T", "U", "V", "W", "X", "Y", "Z", "\\", "_",
      "a", "b", "c", "d", "e", "f", "g", "h", "i", "j", "k", "l", "m",
      "n", "o", "p", "q", "r", "s", "t", "u", "v", "w", "x", "y", "z">>

Ord(c) == CHOOSE i \in 1..Len(CodePoints) : CodePoints[i] = c

OrdA == Ord("A")
OrdZ == Ord("Z")
Orda == Ord("a")
Ordz == Ord("z")

IsUpper(c) == \E i \in OrdA..OrdZ : CodePoints[i] = c
IsLower(c) == \E i \in Orda..Ordz : CodePoints[i] = c
IsCased(c) == IsUpper(c) \/ IsLower(c)
UpperChar(c) == IF IsLower(c) THEN CodePoints[Ord(c) - Orda + OrdA] ELSE c
LowerChar(c) == IF IsUpper(c) THEN CodePoints[Ord(c) - OrdA + Orda] ELSE c

\* s.lower()
Lower(s) == [i \in 1..Len(s) |-> LowerChar(s[i])]

\* s.title(): a cased character is upper after an uncased one, lower after a cased one
TitleCase(s) ==
    [i \in 1..Len(s) |->
        IF i > 1 /\ IsCased(s[i - 1]) THEN LowerChar(s[i]) ELSE UpperChar(s[i])]

\* a < b for str: the first difference decides, a proper prefix is smaller
RECURSIVE StrLess(_, _)
StrLess(a, b) ==
    IF b = <<>> THEN FALSE
    ELSE IF a = <<>> THEN TRUE
    ELSE IF Head(a) = Head(b) THEN StrLess(Tail(a), Tail(b))
    ELSE Ord(Head(a)) < Ord(Head(b))

\* a < b for the parts of two paths, as pathlib orders Path objects
RECURSIVE PartsLess(_, _)
PartsLess(a, b) ==
    IF b = <<>> THEN FALSE
    ELSE IF a = <<>> THEN TRUE
    ELSE IF Head(a) = Head(b) THEN PartsLess(Tail(a), Tail(b))
    ELSE StrLess(Head(a), Head(b))

\* list.sort / sorted: a stable sort by the order Less
StableSort(seq, Less(_, _)) ==
    LET n == Len(seq)
        before(i) == {j \in 1..n : \/ Less(seq[j], seq[i])
                                   \/ (~Less(seq[i], seq[j]) /\ j < i)}
    IN [k \in 1..n |-> seq[CHOOSE i \in 1..n : Cardinality(before(i)) = k - 1]]

----------------------------------------------------------------------------
(* Titles *)

\* the last '.' of a name
LastDot(name) ==
    IF \A i \in 1..Len(name) : name[i] # "." THEN 0
    ELSE CHOOSE i \in 1..Len(name) : name[i] = "." /\ \A j \in (i + 1)..Len(name) : name[j] # "."

\* Path.suffix: from the last dot, unless it starts or ends the name
Suffix(name) ==
    LET k == LastDot(name)
    IN IF 1 < k /\ k < Len(name) THEN Slice(name, k - 1) ELSE <<>>

\* Path.stem
Stem(name) == SubSeq(name, 1, Len(name) - Len(Suffix(name)))

\* os.path.splitext(name)[0]: up to the last dot, leading dots not counted
SplitextRoot(name) ==
    LET k == LastDot(name)
    IN IF k > 0 /\ \E j \in 1..(k - 1) : name[j] # "." THEN SubSeq(name, 1, k - 1) ELSE name

\* "Default title from filename"
DefaultTitle(name) == TitleCase(Replace(Stem(name), <<"-">>, <<" ">>))

\* "Clean up the title": drop backslashes, keep the part before ':' if longer than 3
CleanTitle(title) ==
    LET t == Replace(title, <<"\\">>, <<>>)
        main_title == Strip(Split(t, ":")[1])
    IN IF Contains(t, <<":">>) /\ Len(main_title) > 3 THEN main_title ELSE t

\* the title get_docs_structure gives a readable Markdown file: the first level-1
\* heading, else the first level-2 heading, else the default, then cleaned up
MarkdownTitle(content, name) ==
    LET h1 == HeadingSearch(content, H1)
        h2 == HeadingSearch(content, H2)
    IN CleanTitle(IF h1.found THEN Strip(h1.group)
                  ELSE IF h2.found THEN Strip(h2.group)
                  ELSE DefaultTitle(name))

DIAGRAM_WORDS ==
    { <<"d", "i", "a", "g", "r", "a", "m">>, <<"f", "l", "o", "w">>,
      <<"c", "h", "a", "r", "t">>, ARCHITECTURE }

DIAGRAM_LABEL == <<"D", "i", "a", "g", "r", "a", "m", ":", " ">>

\* the title of a Mermaid file: labelled unless it names a kind of diagram
MermaidTitle(name) ==
    LET title == DefaultTitle(name)
    IN IF \E word \in DIAGRAM_WORDS : Contains(Lower(title), word) THEN title
       ELSE DIAGRAM_LABEL \o title

TITLE_OPEN == <<"<", "t", "i", "t", "l", "e", ">">>
TITLE_CLOSE == <<"<", "/", "t", "i", "t", "l", "e", ">">>

\* re.search(r'<title>(.*?)</title>', content): leftmost opening tag with a closing
\* tag on the same line, and the nearest such closing tag
TitleTag(content) ==
    LET closes(i) == {j \in (i + Len(TITLE_OPEN))..Len(content) :
                        /\ StartsWith(Slice(content, j - 1), TITLE_CLOSE)
                        /\ \A k \in (i + Len(TITLE_OPEN))..(j - 1) : content[k] # "\n"}
        opens == {i \in 1..Len(content) :
                    StartsWith(Slice(content, i - 1), TITLE_OPEN) /\ closes(i) # {}}
        first == CHOOSE i \in opens : \A o \in opens : i <= o
        last == CHOOSE j \in closes(first) : \A o \in closes(first) : j <= o
    IN IF opens = {} THEN [found |-> FALSE, group |-> <<>>]
       ELSE [found |-> TRUE, group |-> SubSeq(content, first + Len(TITLE_OPEN), last - 1)]

----------------------------------------------------------------------------
(* The read handlers of DocsHandler *)

\* the security check of handle_read_mmd and handle_read_doc
ReadMmdRejects(file_path) == Contains(file_path, DOTDOT)

\* "Prepend docs/ if not already present"
PrependDocs(file_path) ==
    IF ~StartsWith(file_path, DOCS_SLASH) THEN PathJoin(DOCS, file_path) ELSE file_path

HandleReadMmd(tree, path) ==
    LET decoded == Replace(Slice(path, 10), PCT2F, SLASH)
        file_path == PrependDocs(decoded)
        probe == <<OpIsFile(file_path)>>
        err == ReadError(tree, file_path, TRUE)
    IN IF ReadMmdRejects(decoded) THEN Failure("read_mmd", <<>>, "Invalid file path", <<>>)
       ELSE IF ~IsFile(tree, file_path)
            THEN Failure("read_mmd", <<>>, "File not found", probe)
       ELSE IF err # ""
            THEN Failure("read_mmd", <<>>, err, Append(probe, OpOpen(file_path)))
       ELSE Success("read_mmd", "text/plain", [raw |-> ReadText(tree, file_path)],
                    {file_path}, Append(probe, OpOpen(file_path)))

\* the title handle_read_doc reports: group(1) of the first level-1 heading,
\* else os.path.basename(file_path)
ReadDocTitle(content, file_path) ==
    LET m == HeadingSearch(content, H1)
    IN IF m.found THEN m.group ELSE Basename(file_path)

\* (mutant) the status line is sent before the document is rendered, so a failed
\* render sends 500 after 200
HandleReadDoc_StatusBeforeRender(tree, path, renderOk) ==
    LET decoded == Replace(Slice(path, 10), PCT2F, SLASH)
        file_path == PrependDocs(decoded)
        probe == <<OpIsFile(file_path)>>
        err == ReadError(tree, file_path, TRUE)
        content == ReadText(tree, file_path)
    IN IF ReadMmdRejects(decoded) THEN Failure("read_doc", <<>>, "Invalid file path", <<>>)
       ELSE IF ~IsFile(tree, file_path)
            THEN Failure("read_doc", <<>>, "File not found", probe)
       ELSE IF err # ""
            THEN Failure("read_doc", <<>>, err, Append(probe, OpOpen(file_path)))
       ELSE IF ~renderOk
            THEN Failure("read_doc", <<200>>, "render failed",
                         Append(probe, OpOpen(file_path)))
       ELSE Success("read_doc", "application/json",
                    [title |-> ReadDocTitle(content, file_path),
                     content |-> [html_of |-> content],
                     path |-> file_path],
                    {file_path}, Append(probe, OpOpen(file_path)))

\* renderOk: whether markdown.markdown, the external converter, returns
HandleReadDoc(tree, path, renderOk) ==
    LET decoded == Replace(Slice(path, 10), PCT2F, SLASH)
        file_path == PrependDocs(decoded)
        probe == <<OpIsFile(file_path)>>
        err == ReadError(tree, file_path, TRUE)
        content == ReadText(tree, file_path)
    IN IF ReadMmdRejects(decoded) THEN Failure("read_doc", <<>>, "Invalid file path", <<>>)
       ELSE IF ~IsFile(tree, file_path)
            THEN Failure("read_doc", <<>>, "File not found", probe)
       ELSE IF err # ""
            THEN Failure("read_doc", <<>>, err, Append(probe, OpOpen(file_path)))
       ELSE IF ~renderOk
            THEN Failure("read_doc", <<>>, "render failed", Append(probe, OpOpen(file_path)))
       ELSE Success("read_doc", "application/json",
                    [title |-> ReadDocTitle(content, file_path),
                     content |-> [html_of |-> content],
                     path |-> file_path],
                    {file_path}, Append(probe, OpOpen(file_path)))

\* (mutant) the prefix is checked, the parent-directory test is left out
ReadFileRejects_PrefixOnly(file_path) == ~StartsWith(file_path, DOCS_SLASH)

\* the security check of handle_read_file
ReadFileRejects(file_path) ==
    ~StartsWith(file_path, DOCS_SLASH) \/ Contains(file_path, DOTDOT)

\* mimetypes.guess_type by the extension, application/octet-stream when unknown
MimeType(file_path) ==
    IF EndsWith(file_path, <<".", "m", "d">>) THEN "text/markdown"
    ELSE IF EndsWith(file_path, <<".", "h", "t", "m", "l">>) THEN "text/html"
    ELSE IF EndsWith(file_path, <<".", "p", "n", "g">>) THEN "image/png"
    ELSE "application/octet-stream"

HandleReadFile(tree, path) ==
    LET file_path == Replace(Slice(path, 11), PCT2F, SLASH)
        err == ReadError(tree, file_path, FALSE)
    IN IF ReadFileRejects(file_path)
       THEN Failure("read_file", <<>>, "Invalid file path", <<>>)
       ELSE IF err # "" THEN Failure("read_file", <<>>, err, <<OpOpen(file_path)>>)
       ELSE Success("read_file", MimeType(file_path), [raw |-> FileBytes(tree, file_path)],
                    {file_path}, <<OpOpen(file_path)>>)

\* (mutant) the general document root is allowed, as in handle_read_file
MockupRejects_DocsRoot(file_path) ==
    ~StartsWith(file_path, DOCS_SLASH) \/ Contains(file_path, DOTDOT)

\* the security check of handle_mockup
MockupRejects(file_path) ==
    ~StartsWith(file_path, MOCKUP_ROOT) \/ Contains(file_path, DOTDOT)

HandleMockup(tree, path) ==
    LET file_path == Slice(path, 8)
        err == ReadError(tree, file_path, TRUE)
    IN IF MockupRejects(file_path)
       THEN Failure("mockup", <<>>, "Invalid file path", <<>>)
       ELSE IF err # "" THEN Failure("mockup", <<>>, err, <<OpOpen(file_path)>>)
       ELSE Success("mockup", "text/html", [raw |-> ReadText(tree, file_path)],
                    {file_path}, <<OpOpen(file_path)>>)

----------------------------------------------------------------------------
(* The read handler of DiagramHandler *)

\* the security check of DiagramHandler.handle_read_mmd
DiagramRejects(file_path) ==
    ~StartsWith(file_path, DIAGRAM_ROOT) \/ Contains(file_path, DOTDOT)

DiagramReadMmd(tree, path) ==
    LET file_path == Slice(path, 10)
        err == ReadError(tree, file_path, TRUE)
    IN IF DiagramRejects(file_path)
       THEN Failure("diagram_read_mmd", <<>>, "Invalid file path", <<>>)
       ELSE IF err # "" THEN Failure("diagram_read_mmd", <<>>, err, <<OpOpen(file_path)>>)
       ELSE Success("diagram_read_mmd", "text/plain", [raw |-> ReadText(tree, file_path)],
                    {file_path}, <<OpOpen(file_path)>>)

----------------------------------------------------------------------------
(* Enumeration of the tree: glob.glob and Path.rglob *)

\* the path string of a file below the working directory, as glob returns it
RelString(p) == Join(SubSeq(p, Len(Cwd) + 1, Len(p)), SLASH)

FileName(p) == p[Len(p)]

\* below directory dir (parts relative to the working directory)
Under(p, dir) ==
    LET d == Cwd \o dir IN Len(p) > Len(d) /\ SubSeq(p, 1, Len(d)) = d

\* glob's * and ** match no name that starts with a dot
Visible(p, dir) ==
    \A i \in (Len(Cwd) + Len(dir) + 1)..Len(p) : ~StartsWith(p[i], <<".">>)

\* glob.glob('docs/**/*.<ext>', recursive=True)
MatchDocsExt(p, ext) ==
    Under(p, <<DOCS>>) /\ Visible(p, <<DOCS>>) /\ EndsWith(FileName(p), <<".">> \o ext)

\* "Convert Windows paths to forward slashes if needed"
ForwardSlashes(file) == Replace(file, <<"\\">>, SLASH)

MapSeq(seq, F(_)) == [i \in 1..Len(seq) |-> F(seq[i])]

RECURSIVE Concat(_)
Concat(seqs) == IF seqs = <<>> THEN <<>> ELSE Head(seqs) \o Concat(Tail(seqs))

EXT_MD == <<"m", "d">>
EXT_MMD == <<"m", "m", "d">>
EXT_SVG == <<"s", "v", "g">>
EXT_HTML == <<"h", "t", "m", "l">>
EXT_PNG == <<"p", "n", "g">>
EXT_JPG == <<"j", "p", "g">>
TOOLS_DIR == <<"/", "t", "o", "o", "l", "s", "/">>
NODE_MODULES == <<"n", "o", "d", "e", "_", "m", "o", "d", "u", "l", "e", "s">>
DIAGRAMS == <<"d", "i", "a", "g", "r", "a", "m", "s">>
MOCKUPS == <<"m", "o", "c", "k", "u", "p", "s">>
UI_MOCKUP == <<"u", "i", "-", "m", "o", "c", "k", "u", "p", ".", "h", "t", "m", "l">>
CATEGORY_OTHER == <<"O", "t", "h", "e", "r">>

----------------------------------------------------------------------------
(* The list handlers of DocsHandler.  order is the order in which the         *)
(* filesystem enumerates the files of the tree; each glob yields its matches  *)
(* in that order.                                                             *)

\* "Remove extension and convert to title case"
ListDocsName(file_path) ==
    TitleCase(Replace(SplitextRoot(Basename(file_path)), <<"-">>, <<" ">>))

ListDocsEntry(file_path, file_type) ==
    [path |-> file_path, name |-> ListDocsName(file_path), type |-> file_type]

\* the entries of one extension, files below a tools directory skipped
ListDocsOfType(order, ext, file_type) ==
    LET found == SelectSeq(order, LAMBDA p : MatchDocsExt(p, ext))
        kept == SelectSeq(found, LAMBDA p : ~Contains(RelString(p), TOOLS_DIR))
    IN MapSeq(kept, LAMBDA p : ListDocsEntry(ForwardSlashes(RelString(p)), file_type))

\* handle_list_docs appends in the order of the extensions and of each glob
ListDocs(order) ==
    ListDocsOfType(order, EXT_MD, "doc") \o ListDocsOfType(order, EXT_MMD, "diagram")
        \o ListDocsOfType(order, EXT_SVG, "svg") \o ListDocsOfType(order, EXT_HTML, "html")

HandleListDocs(tree, order) ==
    Success("list_docs", "application/json", [files |-> ListDocs(order)], {}, <<>>)

ListMmdEntry(relative_path) ==
    LET display_name == Replace(Basename(relative_path), <<".">> \o EXT_MMD, <<>>)
        path_parts == Split(relative_path, "/")
        category == IF Len(path_parts) > 2 THEN path_parts[2] ELSE CATEGORY_OTHER
    IN [path |-> relative_path,
        name |-> TitleCase(Replace(display_name, <<"-">>, <<" ">>)),
        category |-> TitleCase(Replace(category, <<"-">>, <<" ">>))]

\* "Sort diagrams by category and then by name"
ListMmdLess(x, y) ==
    \/ StrLess(x.category, y.category)
    \/ (x.category = y.category /\ StrLess(x.name, y.name))

ListMmd(order) ==
    LET found == SelectSeq(order, LAMBDA p : MatchDocsExt(p, EXT_MMD))
        kept == SelectSeq(found, LAMBDA p : ~Contains(RelString(p), NODE_MODULES))
    IN StableSort(MapSeq(kept, LAMBDA p : ListMmdEntry(ForwardSlashes(RelString(p)))),
                  ListMmdLess)

HandleListMmd(tree, order) ==
    Success("list_mmd", "application/json", [files |-> ListMmd(order)], {}, <<>>)

\* the three patterns of mockup_paths
MatchMockup(p, k) ==
    IF k = 1 THEN p = Cwd \o <<DOCS, CURRENT_PROJECT, DIAGRAMS, UI_MOCKUP>>
    ELSE /\ Len(p) = Len(Cwd) + 4
         /\ Under(p, <<DOCS, CURRENT_PROJECT, MOCKUPS>>)
         /\ Visible(p, <<DOCS, CURRENT_PROJECT, MOCKUPS>>)
         /\ EndsWith(FileName(p), <<".">> \o (IF k = 2 THEN EXT_PNG ELSE EXT_JPG))

\* the files handle_list_mockups opens, in its order
MockupFiles(order) ==
    Concat([k \in 1..3 |-> SelectSeq(order, LAMBDA p : MatchMockup(p, k))])

\* "Read the file to get the title from the title tag"
MockupEntry(tree, file) ==
    LET m == TitleTag(ReadText(tree, file))
    IN [path |-> ForwardSlashes(file),
        name |-> IF m.found THEN m.group ELSE Basename(file)]

\* "Sort files by name"
MockupLess(x, y) == StrLess(x.name, y.name)

\* the first file of the list that cannot be read as text, 0 when all can
FirstUnreadable(tree, files) ==
    LET bad == {i \in 1..Len(files) : ReadError(tree, RelString(files[i]), TRUE) # ""}
    IN IF bad = {} THEN 0 ELSE CHOOSE i \in bad : \A o \in bad : i <= o

HandleListMockups(tree, order) ==
    LET files == MockupFiles(order)
        k == FirstUnreadable(tree, files)
        names == MapSeq(files, LAMBDA p : RelString(p))
    IN IF k # 0
       THEN Failure("list_mockups", <<>>, ReadError(tree, RelString(files[k]), TRUE),
                    MapSeq(SubSeq(names, 1, k), LAMBDA f : OpOpen(f)))
       ELSE Success("list_mockups", "application/json",
                    [files |-> StableSort(MapSeq(names, LAMBDA f : MockupEntry(tree, f)),
                                          MockupLess)],
                    {names[i] : i \in 1..Len(names)},
                    MapSeq(names, LAMBDA f : OpOpen(f)))

----------------------------------------------------------------------------
(* get_docs_structure *)

\* section_order.get(section, 999)
SECTION_DEFAULT == 999

SectionOrder(section) ==
    IF section = <<"c", "o", "m", "m", "o", "n">> THEN 0
    ELSE IF section = <<"r", "e", "a", "c", "t">> THEN 1
    ELSE IF section = <<"e", "l", "e", "c", "t", "r", "o", "n">> THEN 2
    ELSE IF section = <<"r", "u", "s", "t", "-", "c", "o", "r", "e">> THEN 3
    ELSE SECTION_DEFAULT

\* the files for which the loop over rglob('*') appends an entry
StructureFile(p) ==
    /\ Under(p, <<DOCS, ARCHITECTURE>>)
    /\ ~StartsWith(FileName(p), <<".">>)
    /\ ~StartsWith(FileName(p), <<"_", "_">>)
    /\ Suffix(FileName(p)) \in {<<".">> \o EXT_MD, <<".">> \o EXT_MMD}

\* the title of an entry; a Markdown file that cannot be read keeps the default
StructureTitle(tree, p) ==
    IF Suffix(FileName(p)) = <<".">> \o EXT_MD
    THEN IF ReadError(tree, RelString(p), TRUE) = ""
         THEN MarkdownTitle(ReadText(tree, RelString(p)), FileName(p))
         ELSE DefaultTitle(FileName(p))
    ELSE MermaidTitle(FileName(p))

\* folder_path is None for a file directly in the base directory
NoFolder == [none |-> TRUE, str |-> <<>>]

StructureEntry(tree, p) ==
    LET parts == SubSeq(p, Len(Cwd) + 3, Len(p))
    IN [type |-> IF Suffix(FileName(p)) = <<".">> \o EXT_MMD THEN "diagram" ELSE "doc",
        path |-> Join(SubSeq(p, Len(Cwd) + 2, Len(p)), SLASH),
        title |-> StructureTitle(tree, p),
        section |-> parts[1],
        folder_path |-> IF Len(parts) > 1
                        THEN [none |-> FALSE,
                              str |-> Join(SubSeq(parts, 1, Len(parts) - 1), SLASH)]
                        ELSE NoFolder,
        is_root_file |-> Len(parts) = 1]

RootRank(x) == IF x.is_root_file THEN 0 ELSE 1

\* the sort key: section order, root files first, folder path, title
StructureLess(x, y) ==
    \/ SectionOrder(x.section) < SectionOrder(y.section)
    \/ /\ SectionOrder(x.section) = SectionOrder(y.section)
       /\ \/ RootRank(x) < RootRank(y)
          \/ /\ RootRank(x) = RootRank(y)
             /\ \/ StrLess(x.folder_path.str, y.folder_path.str)
                \/ /\ x.folder_path = y.folder_path
                   /\ StrLess(x.title, y.title)

\* comparing None with a str raises TypeError: two keys equal in their first two
\* components, one with a folder path and one without
SortRaises(entries) ==
    \E i, j \in 1..Len(entries) :
        /\ SectionOrder(entries[i].section) = SectionOrder(entries[j].section)
        /\ RootRank(entries[i]) = RootRank(entries[j])
        /\ entries[i].folder_path.none # entries[j].folder_path.none

\* (mutant) the enumeration is not sorted
SortedPaths_Unsorted(order) == SelectSeq(order, StructureFile)

\* sorted(base.rglob('*')): the enumeration, sorted as paths.  Only files are kept:
\* the loop appends nothing for a directory
SortedPaths(order) ==
    StableSort(SelectSeq(order, StructureFile), PartsLess)

\* the list before structure.sort
StructureEntries(tree, order) ==
    MapSeq(SortedPaths(order), LAMBDA p : StructureEntry(tree, p))

GetDocsStructureList(tree, order) ==
    StableSort(StructureEntries(tree, order), StructureLess)

\* the Markdown files the loop reads
StructureOpened(tree) ==
    {RelString(p) : p \in {q \in DOMAIN tree :
        /\ StructureFile(q)
        /\ Suffix(FileName(q)) = <<".">> \o EXT_MD
        /\ ReadError(tree, RelString(q), TRUE) = ""}}

HandleDocsStructure(tree, order) ==
    IF SortRaises(StructureEntries(tree, order))
    THEN Failure("docs_structure", <<>>, "'<' not supported", <<>>)
    ELSE Success("docs_structure", "application/json",
                 [files |-> GetDocsStructureList(tree, order)], StructureOpened(tree), <<>>)

----------------------------------------------------------------------------
(* The list handler of DiagramHandler *)

\* glob.glob('docs/architecture/**/diagrams/*.mmd', recursive=True)
MatchDiagram(p) ==
    /\ Under(p, <<DOCS, ARCHITECTURE>>)
    /\ Visible(p, <<DOCS, ARCHITECTURE>>)
    /\ Len(p) >= Len(Cwd) + 4
    /\ p[Len(p) - 1] = DIAGRAMS
    /\ EndsWith(FileName(p), <<".">> \o EXT_MMD)

DiagramEntry(file) ==
    [path |-> ForwardSlashes(file),
     name |-> Replace(Basename(file), <<".">> \o EXT_MMD, <<>>)]

DiagramListMmd(tree, order) ==
    Success("diagram_list_mmd", "application/json",
            [files |-> MapSeq(SelectSeq(order, MatchDiagram),
                              LAMBDA p : DiagramEntry(RelString(p)))],
            {}, <<>>)

----------------------------------------------------------------------------
(* Dispatch *)

\* DocsHandler.do_GET: the handler a request path is dispatched to
Route(path) ==
    IF path = DOCS_STRUCTURE THEN "docs_structure"
    ELSE IF path = LIST_DOCS THEN "list_docs"
    ELSE IF path = LIST_MMD THEN "list_mmd"
    ELSE IF path = LIST_MOCKUPS THEN "list_mockups"
    ELSE IF StartsWith(path, READ_MMD) THEN "read_mmd"
    ELSE IF StartsWith(path, READ_DOC) THEN "read_doc"
    ELSE IF StartsWith(path, READ_FILE) THEN "read_file"
    ELSE IF StartsWith(path, MOCKUP) THEN "mockup"
    ELSE "static"

\* DiagramHandler.do_GET
DiagramRoute(path) ==
    IF path = LIST_MMD THEN "diagram_list_mmd"
    ELSE IF StartsWith(path, READ_MMD) THEN "diagram_read_mmd"
    ELSE "static"

----------------------------------------------------------------------------
(* The inputs: file names, file contents, trees and request paths *)

F1 == <<"a", "-", "b", ".", "m", "d">>
F2 == <<"a", ".", ".", "b", ".", "m", "d">>

TXT_PLAIN == <<"h", "i", "\r", "\n">>
TXT_H1 == <<"#", " ", "T">>
TXT_H2 == <<"#", "#", " ", "T">>
TXT_H2H1 == <<"#", "#", " ", "U", "\n", "#", " ", "T", " ", "\n">>
TXT_SUB == <<"#", " ", "M", "a", "i", "n", ":", " ", "s">>
BINARY == <<"x89", "P">>

File(bytes) == [bytes |-> bytes, readable |-> TRUE]
Unreadable(bytes) == [bytes |-> bytes, readable |-> FALSE]

InDocs(rel) == Cwd \o <<DOCS>> \o rel

InArch(rel) == InDocs(<<ARCHITECTURE>> \o rel)

API == <<"a", "p", "i">>
API_V2 == <<"a", "p", "i", "-", "v", "2">>
SUB == <<"s", "u", "b">>
REACT == <<"r", "e", "a", "c", "t">>
D_MMD == <<"d", ".", "m", "m", "d">>
M_PNG == <<"m", ".", "p", "n", "g">>
TXT_HTML == TITLE_OPEN \o <<"M">> \o TITLE_CLOSE

\* the files a tree is made of: in the document root, outside it (in the project
\* root), in the mockup subtree and in the architecture sections
Candidates ==
    { [path |-> InDocs(<<F1>>), file |-> File(TXT_PLAIN)],
      [path |-> Cwd \o <<F1>>, file |-> File(TXT_H1)],
      [path |-> InDocs(<<CURRENT_PROJECT, F1>>), file |-> File(TXT_H2H1)],
      [path |-> InArch(<<F1>>), file |-> File(TXT_H1)],
      [path |-> InArch(<<F2>>), file |-> File(TXT_H2)],
      [path |-> InArch(<<API, F1>>), file |-> File(TXT_SUB)],
      [path |-> InArch(<<API_V2, F1>>), file |-> File(BINARY)],
      [path |-> InArch(<<API, SUB, F1>>), file |-> Unreadable(TXT_PLAIN)],
      [path |-> InArch(<<REACT, DIAGRAMS, D_MMD>>), file |-> File(TXT_PLAIN)],
      [path |-> InDocs(<<CURRENT_PROJECT, MOCKUPS, M_PNG>>), file |-> File(BINARY)],
      [path |-> InDocs(<<CURRENT_PROJECT, DIAGRAMS, UI_MOCKUP>>), file |-> File(TXT_HTML)] }

\* a tree holds each path once, and no file where another path needs a directory
WellFormed(cands) ==
    \A c, d \in cands :
        c # d => /\ c.path # d.path
                 /\ ~(Len(c.path) < Len(d.path) /\ SubSeq(d.path, 1, Len(c.path)) = c.path)

TreeOf(cands) ==
    [p \in {c.path : c \in cands} |-> (CHOOSE c \in cands : c.path = p).file]

Trees ==
    {TreeOf(cands) : cands \in {c \in SUBSET Candidates : Cardinality(c) <= MaxFiles /\ WellFormed(c)}}

SeqsUpTo(S, n) == UNION {[1..k -> S] : k \in 0..n}

\* how a request path starts: with nothing, with a prefix the handlers test for,
\* or with the absolute path of the project root (an empty first segment)
Prefixes ==
    {<<>>, <<DOCS>>, <<DOCS, CURRENT_PROJECT>>, <<DOCS, ARCHITECTURE>>, << <<>> >> \o Cwd}

Separators == {SLASH, PCT2F}

\* what a request writes after the endpoint prefix
Suffixes ==
    {Join(pre \o tail, sep) :
        <<pre, tail, sep>> \in Prefixes \X SeqsUpTo({DOTDOT, F1, F2}, MaxSegs) \X Separators}

\* the orders in which the filesystem may enumerate the files of a tree
Orders(tree) ==
    LET n == Cardinality(DOMAIN tree)
    IN {o \in [1..n -> DOMAIN tree] : \A i, j \in 1..n : o[i] = o[j] => i = j}

\* request paths no handler of do_GET matches
StaticPaths == {SLASH, LIST_DOCS \o SLASH, SubSeq(READ_MMD, 1, Len(READ_MMD) - 1)}

----------------------------------------------------------------------------
(* The state machine: one request is read, handled and answered at a time *)

NoRequest == [server |-> "none", path |-> <<>>, renderOk |-> TRUE, order |-> <<>>]
NoResponse == [handler |-> "none", statuses |-> <<>>, ctype |-> "", body |-> [raw |-> <<>>],
               opened |-> {}, fsops |-> <<>>, raised |-> FALSE]

Init ==
    /\ fs \in Trees
    /\ pc = "idle"
    /\ request = NoRequest
    /\ resp = NoResponse

Respond(server, path, renderOk, order, r) ==
    /\ pc' = "done"
    /\ request' = [server |-> server, path |-> path, renderOk |-> renderOk, order |-> order]
    /\ resp' = r
    /\ UNCHANGED fs

GetReadMmd ==
    /\ pc = "idle"
    /\ \E sfx \in Suffixes :
         LET path == READ_MMD \o sfx
         IN /\ Route(path) = "read_mmd"
            /\ Respond("docs", path, TRUE, <<>>, HandleReadMmd(fs, path))

GetReadDoc ==
    /\ pc = "idle"
    /\ \E sfx \in Suffixes, renderOk \in BOOLEAN :
         LET path == READ_DOC \o sfx
         IN /\ Route(path) = "read_doc"
            /\ Respond("docs", path, renderOk, <<>>, HandleReadDoc(fs, path, renderOk))

GetReadFile ==
    /\ pc = "idle"
    /\ \E sfx \in Suffixes :
         LET path == READ_FILE \o sfx
         IN /\ Route(path) = "read_file"
            /\ Respond("docs", path, TRUE, <<>>, HandleReadFile(fs, path))

GetMockup ==
    /\ pc = "idle"
    /\ \E sfx \in Suffixes :
         LET path == MOCKUP \o sfx
         IN /\ Route(path) = "mockup"
            /\ Respond("docs", path, TRUE, <<>>, HandleMockup(fs, path))

DiagramGetReadMmd ==
    /\ pc = "idle"
    /\ \E sfx \in Suffixes :
         LET path == READ_MMD \o sfx
         IN /\ DiagramRoute(path) = "diagram_read_mmd"
            /\ Respond("diagram", path, TRUE, <<>>, DiagramReadMmd(fs, path))

GetDocsStructure ==
    /\ pc = "idle"
    /\ Route(DOCS_STRUCTURE) = "docs_structure"
    /\ \E order \in Orders(fs) :
         Respond("docs", DOCS_STRUCTURE, TRUE, order, HandleDocsStructure(fs, order))

GetListDocs ==
    /\ pc = "idle"
    /\ Route(LIST_DOCS) = "list_docs"
    /\ \E order \in Orders(fs) :
         Respond("docs", LIST_DOCS, TRUE, order, HandleListDocs(fs, order))

GetListMmd ==
    /\ pc = "idle"
    /\ Route(LIST_MMD) = "list_mmd"
    /\ \E order \in Orders(fs) :
         Respond("docs", LIST_MMD, TRUE, order, HandleListMmd(fs, order))

GetListMockups ==
    /\ pc = "idle"
    /\ Route(LIST_MOCKUPS) = "list_mockups"
    /\ \E order \in Orders(fs) :
         Respond("docs", LIST_MOCKUPS, TRUE, order, HandleListMockups(fs, order))

DiagramGetListMmd ==
    /\ pc = "idle"
    /\ DiagramRoute(LIST_MMD) = "diagram_list_mmd"
    /\ \E order \in Orders(fs) :
         Respond("diagram", LIST_MMD, TRUE, order, DiagramListMmd(fs, order))

\* super().do_GET(): the static file transport answers, with a status of its own
StaticResponse(status) ==
    [handler |-> "static", statuses |-> <<status>>, ctype |-> "", body |-> [raw |-> <<>>],
     opened |-> {}, fsops |-> <<>>, raised |-> FALSE]

GetStatic ==
    /\ pc = "idle"
    /\ \E path \in StaticPaths, status \in {200, 404} :
         /\ Route(path) = "static"
         /\ Respond("docs", path, TRUE, <<>>, StaticResponse(status))

DiagramGetStatic ==
    /\ pc = "idle"
    /\ \E path \in StaticPaths \cup {LIST_DOCS}, status \in {200, 404} :
         /\ DiagramRoute(path) = "static"
         /\ Respond("diagram", path, TRUE, <<>>, StaticResponse(status))

\* the response is written and the server waits for the next request
Finish ==
    /\ pc = "done"
    /\ pc' = "idle"
    /\ request' = NoRequest
    /\ resp' = NoResponse
    /\ UNCHANGED fs

Next ==
    \/ GetDocsStructure
    \/ GetListDocs
    \/ GetListMmd
    \/ GetListMockups
    \/ GetReadMmd
    \/ GetReadDoc
    \/ GetReadFile
    \/ GetMockup
    \/ GetStatic
    \/ DiagramGetListMmd
    \/ DiagramGetReadMmd
    \/ DiagramGetStatic
    \/ Finish

Spec == Init /\ [][Next]_vars

----------------------------------------------------------------------------
(* Properties *)

ReadHandlers == {"read_mmd", "read_doc", "read_file", "mockup", "diagram_read_mmd"}

\* the endpoint prefix the handler slices off
EndpointPrefix(h) ==
    IF h = "read_doc" THEN READ_DOC
    ELSE IF h = "read_file" THEN READ_FILE
    ELSE IF h = "mockup" THEN MOCKUP
    ELSE READ_MMD

\* the part of the request path after the endpoint prefix
RequestSuffix == Slice(request.path, Len(EndpointPrefix(resp.handler)))

\* the segments of a path whose separators are written / or %2F
Segments(path) == Split(Replace(path, PCT2F, SLASH), "/")

HasParentSegment(path) ==
    LET segs == Segments(path) IN \E i \in 1..Len(segs) : segs[i] = DOTDOT

\* an error response: status 500, the JSON error object, and no file read
Rejected(r) ==
    /\ r.statuses = <<500>>
    /\ DOMAIN r.body = {"error"}
    /\ r.opened = {}

\* the node of the tree lies in the document root
InDocumentRoot(node) == Under(node, <<DOCS>>)

\* C1: a request to a read endpoint whose path holds a parent-directory segment
\* '..', between separators written / or %2F, is answered by an error response
\* and reads no file, whatever the tree holds.
C1_TraversalRejected ==
    (pc = "done" /\ resp.handler \in ReadHandlers /\ HasParentSegment(RequestSuffix))
        => Rejected(resp)

\* C1 witness: /read-file/ is asked for a path below docs/ that climbs out of the
\* document root to a file that exists there, and rejects it.
C1_Witness ==
    /\ pc = "done"
    /\ resp.handler = "read_file"
    /\ HasParentSegment(RequestSuffix)
    /\ StartsWith(Replace(RequestSuffix, PCT2F, SLASH), DOCS_SLASH)
    /\ Contains(RequestSuffix, PCT2F)
    /\ IsFile(fs, Replace(RequestSuffix, PCT2F, SLASH))
    /\ ~InDocumentRoot(Resolve(fs, Replace(RequestSuffix, PCT2F, SLASH)).at)
    /\ Rejected(resp)

\* C2: whenever /read-mmd/ or /read-doc/ answers 200, the path it opened starts
\* with docs/ and the file read lies in the document root.
C2_ReadStaysInRoot ==
    (pc = "done" /\ resp.handler \in {"read_mmd", "read_doc"} /\ resp.statuses = <<200>>)
        => \A f \in resp.opened :
              StartsWith(f, DOCS_SLASH) /\ InDocumentRoot(Resolve(fs, f).at)

\* C3: /mockup/<path> with a path that does not start with the mockup prefix is
\* rejected and touches no file.
C3_MockupSubtreeOnly ==
    (pc = "done" /\ resp.handler = "mockup" /\ ~StartsWith(RequestSuffix, MOCKUP_ROOT))
        => (Rejected(resp) /\ resp.fsops = <<>>)

\* C3 witness: the rejected path starts with docs/, names an existing file and is
\* served by /read-file/.
C3_Witness ==
    /\ pc = "done"
    /\ resp.handler = "mockup"
    /\ ~StartsWith(RequestSuffix, MOCKUP_ROOT)
    /\ StartsWith(RequestSuffix, DOCS_SLASH)
    /\ HandleReadFile(fs, READ_FILE \o RequestSuffix).statuses = <<200>>
    /\ Rejected(resp)

\* C4: /read-file/ and /read-mmd/ answer a path below docs/ that holds no
\* parent-directory segment and names an existing, readable file (of UTF-8 text
\* for /read-mmd/) with status 200 and the content of that file: the bytes for
\* /read-file/, the text for /read-mmd/.
C4_ValidPathServed ==
    (/\ pc = "done"
     /\ resp.handler \in {"read_file", "read_mmd"}
     /\ StartsWith(Replace(RequestSuffix, PCT2F, SLASH), DOCS_SLASH)
     /\ ~HasParentSegment(RequestSuffix)
     /\ ReadError(fs, Replace(RequestSuffix, PCT2F, SLASH), resp.handler = "read_mmd") = "")
        => /\ resp.statuses = <<200>>
           /\ DOMAIN resp.body = {"raw"}
           /\ resp.body.raw = IF resp.handler = "read_file"
                               THEN FileBytes(fs, Replace(RequestSuffix, PCT2F, SLASH))
                               ELSE ReadText(fs, Replace(RequestSuffix, PCT2F, SLASH))

ListHandlers == {"docs_structure", "list_docs", "list_mmd", "list_mockups"}

\* the response of a list handler of DocsHandler for an enumeration order
ListResponse(h, tree, order) ==
    IF h = "docs_structure" THEN HandleDocsStructure(tree, order)
    ELSE IF h = "list_docs" THEN HandleListDocs(tree, order)
    ELSE IF h = "list_mmd" THEN HandleListMmd(tree, order)
    ELSE HandleListMockups(tree, order)

\* C5: the sequence of entries a listing endpoint returns is the same for every
\* order in which the filesystem enumerates the files of the tree.
C5_ListingOrderIndependent ==
    (pc = "done" /\ resp.handler \in ListHandlers /\ resp.statuses = <<200>>)
        => \A order \in Orders(fs) :
              ListResponse(resp.handler, fs, order).body = resp.body

\* C6: a request dispatched to a handler of the service gets exactly one status,
\* 200 or 500, and no exception leaves the handler; a 500 carries the JSON error
\* object and a 200 does not; a failed render, a file that cannot be opened or
\* decoded, and a rejected path all end in 500.
C6_OneStatus200Or500 ==
    (pc = "done" /\ resp.handler # "static")
        => /\ Len(resp.statuses) = 1
           /\ resp.statuses[1] \in {200, 500}
           /\ ~resp.raised
           /\ (resp.statuses = <<500>>)
                 <=> (DOMAIN resp.body = {"error"} /\ resp.ctype = "application/json")
           /\ (resp.handler = "read_doc" /\ ~request.renderOk) => resp.statuses = <<500>>
           /\ (resp.statuses = <<200>>) =>
                 \A i \in 1..Len(resp.fsops) :
                    resp.fsops[i].op = "open" =>
                       ReadError(fs, resp.fsops[i].path, resp.handler # "read_file") = ""

\* C6 witness: the render step of /read-doc/ fails on a file that was read, and
\* the answer is the one status 500 with the error object.
C6_Witness ==
    /\ pc = "done"
    /\ resp.handler = "read_doc"
    /\ ~request.renderOk
    /\ resp.fsops # <<>>
    /\ ReadError(fs, resp.fsops[Len(resp.fsops)].path, TRUE) = ""
    /\ resp.statuses = <<500>>
    /\ resp.body = [error |-> "render failed"]

\* the entries of the answer of /docs-structure
Listed == resp.body.files

StructureAnswered ==
    pc = "done" /\ resp.handler = "docs_structure" /\ resp.statuses = <<200>>

\* C7 (as claimed): the sort key of /docs-structure tells any two entries with
\* different paths apart.
C7_SortKeyTotal ==
    StructureAnswered
        => \A i, j \in 1..Len(Listed) :
              i # j => (StructureLess(Listed[i], Listed[j])
                           \/ StructureLess(Listed[j], Listed[i]))

\* C7 (amended): the listed order of /docs-structure is total although the key is
\* not: of two entries the earlier one has the smaller key, or the keys are equal
\* and the earlier one has the smaller path.
C7_ListedOrderTotal ==
    StructureAnswered
        => \A i, j \in 1..Len(Listed) :
              i < j => \/ StructureLess(Listed[i], Listed[j])
                       \/ /\ ~StructureLess(Listed[j], Listed[i])
                          /\ PartsLess(Split(Listed[i].path, "/"), Split(Listed[j].path, "/"))

\* C7 witness: two files of one folder with the same title are listed, and the
\* enumeration yielded them in descending order of path.
C7_Witness ==
    /\ StructureAnswered
    /\ \E i, j \in 1..Len(Listed) :
          /\ i < j
          /\ ~StructureLess(Listed[i], Listed[j])
          /\ ~StructureLess(Listed[j], Listed[i])
          /\ Listed[i].title = Listed[j].title
          /\ \E a, b \in 1..Len(request.order) :
                /\ a < b
                /\ RelString(request.order[a]) = DOCS_SLASH \o Listed[j].path
                /\ RelString(request.order[b]) = DOCS_SLASH \o Listed[i].path

\* C8: in /docs-structure the entries are in section order: the sections of the
\* priority table first, in table order, then the other sections one after the
\* other in ascending order of their name.
C8_SectionsGrouped ==
    StructureAnswered
        => \A i, j \in 1..Len(Listed) :
              i < j =>
                 /\ SectionOrder(Listed[i].section) <= SectionOrder(Listed[j].section)
                 /\ (/\ SectionOrder(Listed[i].section) = SECTION_DEFAULT
                      /\ SectionOrder(Listed[j].section) = SECTION_DEFAULT)
                        => \/ Listed[i].section = Listed[j].section
                           \/ StrLess(Listed[i].section, Listed[j].section)

\* the title the rule of the claim gives: the first level-1 heading, else the
\* first level-2 heading, else the default from the file name; as found, stripped
\* or cleaned up
ClaimedTitles(content, name) ==
    LET h1 == HeadingSearch(content, H1)
        h2 == HeadingSearch(content, H2)
        t == IF h1.found THEN h1.group ELSE IF h2.found THEN h2.group ELSE DefaultTitle(name)
    IN {t, Strip(t), CleanTitle(Strip(t))}

\* C9: the title of a Markdown document follows the rule (level-1 heading, else
\* level-2 heading, else file name default) in /docs-structure and in /read-doc/.
C9_TitleRule ==
    /\ (pc = "done" /\ resp.handler = "read_doc" /\ resp.statuses = <<200>>)
          => resp.body.title \in ClaimedTitles(ReadText(fs, resp.body.path),
                                                Basename(resp.body.path))
    /\ StructureAnswered
          => \A i \in 1..Len(Listed) :
                (Listed[i].type = "doc"
                    /\ ReadError(fs, DOCS_SLASH \o Listed[i].path, TRUE) = "")
                  => Listed[i].title \in ClaimedTitles(
                         ReadText(fs, DOCS_SLASH \o Listed[i].path),
                         Basename(Listed[i].path))

\* C10: a listing that takes titles from file content answers 200 with an entry
\* for every file it found, and a file whose content cannot be read has the
\* default title of its file name.
C10_TitleFailureContained ==
    /\ (pc = "done" /\ resp.handler = "docs_structure")
          => /\ resp.statuses = <<200>>
             /\ \A p \in DOMAIN fs :
                   StructureFile(p) =>
                      \E i \in 1..Len(Listed) :
                         /\ DOCS_SLASH \o Listed[i].path = RelString(p)
                         /\ (Listed[i].type = "doc" /\ ReadError(fs, RelString(p), TRUE) # "")
                               => Listed[i].title = DefaultTitle(FileName(p))
    /\ (pc = "done" /\ resp.handler = "list_mockups")
          => /\ resp.statuses = <<200>>
             /\ \A p \in DOMAIN fs :
                   (\E k \in 1..3 : MatchMockup(p, k)) =>
                      \E i \in 1..Len(Listed) :
                         /\ Listed[i].path = RelString(p)
                         /\ ReadError(fs, RelString(p), TRUE) # ""
                               => Listed[i].name = FileName(p)

\* the prefix a path must start with to lie in the subtree the handler serves
AllowedPrefix(h) ==
    IF h = "mockup" THEN MOCKUP_ROOT
    ELSE IF h = "diagram_read_mmd" THEN DIAGRAM_ROOT
    ELSE DOCS_SLASH

\* the security rejection of a read handler
SecurityRejected(r) == r.body = [error |-> "Invalid file path"]

\* C11: a read handler makes a filesystem access (existence check or open) only
\* on a path that has passed the traversal check and the allowed-prefix check,
\* and a request rejected by a security check makes no filesystem access at all.
C11_NoAccessBeforeChecks ==
    (pc = "done" /\ resp.handler \in ReadHandlers)
        => /\ \A i \in 1..Len(resp.fsops) :
                 /\ ~HasParentSegment(resp.fsops[i].path)
                 /\ StartsWith(resp.fsops[i].path, AllowedPrefix(resp.handler))
           /\ SecurityRejected(resp) => resp.fsops = <<>>

====
